---------------------------- MODULE Spec2Model ----------------------------
(***************************************************************************)
(* Model of src/src/otrs_mcp/main.py: the start-up of the OTRS MCP server. *)
(*                                                                         *)
(* A Python str is a sequence of one-character strings, so that len(),     *)
(* int() and "*" * n are computed and not assumed.  An optional value      *)
(* (str | None, int | None) is None == <<>> or Some(v) == <<v>>.           *)
(* Every print() appends one record to stdout or stderr.                   *)
(***************************************************************************)
EXTENDS Integers, Sequences, FiniteSets, TLC

VARIABLES
    argv,             \* the values given to --transport, --host, --port
    env,              \* os.environ, constant during the run
    pc,               \* position of run_server
    args,             \* the argparse.Namespace, None before parsing
    runtime_options,  \* the RuntimeOptions, None before resolution
    env_ok,           \* the result of setup_environment, None before the call
    stdout,           \* lines printed to standard output
    stderr,           \* lines printed to standard error
    mcp_settings,     \* mcp.settings.host / mcp.settings.port as written here
    mcp_run_calls,    \* the calls of mcp.run, with the settings it finds
    exit_code,        \* the process's exit status, None while it runs
    events            \* the steps of run_server, in the order they happened

vars == <<argv, env, pc, args, runtime_options, env_ok, stdout, stderr,
          mcp_settings, mcp_run_calls, exit_code, events>>

---------------------------------------------------------------------------
(* Optional values and Python truthiness *)

None == <<>>

Some(v) == <<v>>

\* bool(value) of a value of type str | None: None and "" are false
Truthy(o) == o # None /\ o[1] # <<>>

\* Python's  a or b
Or(a, b) == IF Truthy(a) THEN a ELSE b

---------------------------------------------------------------------------
(* String literals of the program *)

STDIO == <<"s","t","d","i","o">>

SSE == <<"s","s","e">>

STREAMABLE_HTTP == <<"s","t","r","e","a","m","a","b","l","e","-","h","t","t","p">>

VALID_TRANSPORTS == {STDIO, SSE, STREAMABLE_HTTP}

DEFAULT_HTTP_HOST == <<"1","2","7",".","0",".","0",".","1">>

DEFAULT_HTTP_PORT == 8000

PORT_LIMIT == 65536

DEFAULT_DISPLAY == <<"d","e","f","a","u","l","t">>

HostEnvNames == <<"MCP_HTTP_HOST", "MCP_SERVER_HOST", "MCP_HOST">>

PortEnvNames == <<"MCP_HTTP_PORT", "MCP_SERVER_PORT", "MCP_PORT">>

required_vars == <<"OTRS_BASE_URL", "OTRS_USERNAME", "OTRS_PASSWORD">>

optional_vars == <<"OTRS_VERIFY_SSL", "OTRS_DEFAULT_QUEUE",
                   "OTRS_DEFAULT_STATE", "OTRS_DEFAULT_PRIORITY">>

---------------------------------------------------------------------------
(* int(str): surrounding whitespace is dropped, one sign is allowed, the    *)
(* rest is decimal digits with single underscores between digits.          *)

Digits == {"0","1","2","3","4","5","6","7","8","9"}

Whitespace == {" ", "\t", "\n"}

DigitVal(c) ==
    CASE c = "0" -> 0 [] c = "1" -> 1 [] c = "2" -> 2 [] c = "3" -> 3
      [] c = "4" -> 4 [] c = "5" -> 5 [] c = "6" -> 6 [] c = "7" -> 7
      [] c = "8" -> 8 [] c = "9" -> 9

RECURSIVE LStrip(_)
LStrip(s) ==
    IF s # <<>> /\ Head(s) \in Whitespace THEN LStrip(Tail(s)) ELSE s

RECURSIVE RStrip(_)
RStrip(s) ==
    IF s # <<>> /\ s[Len(s)] \in Whitespace
    THEN RStrip(SubSeq(s, 1, Len(s) - 1))
    ELSE s

Strip(s) == RStrip(LStrip(s))

RECURSIVE DigitsValue(_, _)
DigitsValue(body, acc) ==
    IF body = <<>> THEN acc
    ELSE IF Head(body) = "_" THEN DigitsValue(Tail(body), acc)
    ELSE DigitsValue(Tail(body), acc * 10 + DigitVal(Head(body)))

IsDigitBody(body) ==
    /\ body # <<>>
    /\ body[1] \in Digits
    /\ body[Len(body)] \in Digits
    /\ \A i \in 1..Len(body) : body[i] \in Digits \cup {"_"}
    /\ \A i \in 1..(Len(body) - 1) : ~(body[i] = "_" /\ body[i + 1] = "_")

\* Some(n), or None where Python raises ValueError
ParseInt(s) ==
    LET t == Strip(s)
        signed == t # <<>> /\ t[1] \in {"+", "-"}
        body == IF signed THEN Tail(t) ELSE t
        sign == IF signed /\ t[1] = "-" THEN -1 ELSE 1
    IN  IF IsDigitBody(body) THEN Some(sign * DigitsValue(body, 0)) ELSE None

---------------------------------------------------------------------------
(* parse_cli_args: argparse with choices for --transport, type=int for     *)
(* --port.  The result is None where argparse reports an error and exits.  *)

TransportChoiceOk(a) == a.transport = None \/ a.transport[1] \in VALID_TRANSPORTS

PortTypeOk(a) == a.port = None \/ ParseInt(a.port[1]) # None

parse_cli_args(a) ==
    IF TransportChoiceOk(a) /\ PortTypeOk(a)
    THEN Some([transport |-> a.transport,
               host |-> a.host,
               port |-> IF a.port = None THEN None ELSE ParseInt(a.port[1])])
    ELSE None

---------------------------------------------------------------------------
(* Environment look-up *)

os_getenv(e, name) == e[name]

RECURSIVE first_env(_, _)
first_env(e, names) ==
    IF names = <<>> THEN None
    ELSE IF Truthy(os_getenv(e, Head(names))) THEN os_getenv(e, Head(names))
    ELSE first_env(e, Tail(names))

---------------------------------------------------------------------------
(* _parse_port.  Its argument is None, an int from argparse or a str from  *)
(* the environment; the result is the port and the warnings it printed.    *)

IntSource(n) == [kind |-> "int", val |-> n]

StrSource(s) == [kind |-> "str", val |-> s]

\* int(value): the identity on an int
PyInt(v) == IF v.kind = "int" THEN Some(v.val) ELSE ParseInt(v.val)

\* variant: the lower bound taken as inclusive (0 <= port)
InRange_ZeroAllowed(port) == 0 <= port /\ port < PORT_LIMIT

\* variant: the upper bound taken as inclusive (port <= 65536)
InRange_Inclusive(port) == 0 < port /\ port <= PORT_LIMIT

InRange(port) == 0 < port /\ port < PORT_LIMIT

parse_port(value) ==
    IF value = None
    THEN [port |-> DEFAULT_HTTP_PORT, warn |-> <<>>]
    ELSE LET parsed == PyInt(value[1])
         IN  IF parsed = None
             THEN [port |-> DEFAULT_HTTP_PORT,
                   warn |-> <<[kind |-> "invalid_port", value |-> value[1].val]>>]
             ELSE IF ~InRange(parsed[1])
             THEN [port |-> DEFAULT_HTTP_PORT,
                   warn |-> <<[kind |-> "port_out_of_range", port |-> parsed[1]]>>]
             ELSE [port |-> parsed[1], warn |-> <<>>]

---------------------------------------------------------------------------
(* resolve_runtime_options *)

\* variant: MCP_TRANSPORT consulted before the --transport flag
SelectTransport_EnvFirst(ns, e) ==
    Or(os_getenv(e, "MCP_TRANSPORT"), Or(ns.transport, Some(STDIO)))[1]

SelectTransport(ns, e) ==
    Or(ns.transport, Or(os_getenv(e, "MCP_TRANSPORT"), Some(STDIO)))[1]

\* variant: the MCP_*_HOST variables consulted before the --host flag
SelectHost_EnvFirst(ns, e) ==
    Or(first_env(e, HostEnvNames), Or(ns.host, Some(DEFAULT_HTTP_HOST)))[1]

SelectHost(ns, e) ==
    Or(ns.host, Or(first_env(e, HostEnvNames), Some(DEFAULT_HTTP_HOST)))[1]

\* variant: the MCP_*_PORT variables consulted before the --port flag
port_source_EnvFirst(ns, e) ==
    LET v == first_env(e, PortEnvNames)
    IN  IF v # None THEN Some(StrSource(v[1]))
        ELSE IF ns.port # None THEN Some(IntSource(ns.port[1]))
        ELSE None

port_source(ns, e) ==
    IF ns.port # None
    THEN Some(IntSource(ns.port[1]))
    ELSE LET v == first_env(e, PortEnvNames)
         IN  IF v = None THEN None ELSE Some(StrSource(v[1]))

resolve_runtime_options(ns, e) ==
    LET selected == SelectTransport(ns, e)
        valid == selected \in VALID_TRANSPORTS
        p == parse_port(port_source(ns, e))
    IN  [options |-> [transport |-> IF valid THEN selected ELSE STDIO,
                      host |-> SelectHost(ns, e),
                      port |-> p.port],
         warn |-> (IF valid THEN <<>>
                   ELSE <<[kind |-> "unsupported_transport", value |-> selected]>>)
                  \o p.warn]

---------------------------------------------------------------------------
(* apply_runtime_settings *)

\* variant: only the host is written
apply_runtime_settings_HostOnly(options) ==
    [host |-> Some(options.host), port |-> None]

apply_runtime_settings(options) ==
    [host |-> Some(options.host), port |-> Some(options.port)]

---------------------------------------------------------------------------
(* setup_environment: the lines it prints and the value it returns *)

\* "PASSWORD" in var, for the names of required_vars
ContainsPASSWORD(var) == var = "OTRS_PASSWORD"

\* "*" * len(value)
Mask(value) == [i \in 1..Len(value) |-> "*"]

\* variant: no masking
display_value_Raw(var, value) == value

display_value(var, value) == IF ContainsPASSWORD(var) THEN Mask(value) ELSE value

\* variant: only an unset variable counts as missing (value is None)
missing_vars_NoneOnly(e) ==
    LET Missing(var) == os_getenv(e, var) = None
    IN  SelectSeq(required_vars, Missing)

missing_vars(e) ==
    LET Missing(var) == ~Truthy(os_getenv(e, var))
    IN  SelectSeq(required_vars, Missing)

RequiredLines(e) ==
    LET Present(var) == Truthy(os_getenv(e, var))
        shown == SelectSeq(required_vars, Present)
    IN  [i \in 1..Len(shown) |->
            [kind |-> "var", name |-> shown[i],
             value |-> display_value(shown[i], os_getenv(e, shown[i])[1])]]

RemediationLines ==
    <<[kind |-> "info_set_these"],
      [kind |-> "export", name |-> "OTRS_BASE_URL"],
      [kind |-> "export", name |-> "OTRS_USERNAME"],
      [kind |-> "export", name |-> "OTRS_PASSWORD"],
      [kind |-> "export", name |-> "OTRS_VERIFY_SSL"]>>

\* os.getenv(var, "default")
getenv_default(e, var) ==
    IF os_getenv(e, var) = None THEN DEFAULT_DISPLAY ELSE os_getenv(e, var)[1]

OptionalLines(e) ==
    [i \in 1..Len(optional_vars) |->
        [kind |-> "optional", name |-> optional_vars[i],
         value |-> getenv_default(e, optional_vars[i])]]

RuntimeLines(options) ==
    <<[kind |-> "runtime_header"],
      [kind |-> "MCP_TRANSPORT", transport |-> options.transport],
      [kind |-> "MCP_HOST", host |-> options.host],
      [kind |-> "MCP_PORT", port |-> options.port]>>
    \o (IF options.transport = STDIO THEN <<[kind |-> "stdio_note"]>> ELSE <<>>)

\* variant: the summary is printed before the result is decided
setup_environment_AlwaysSummary(e, options) ==
    LET head == <<[kind |-> "config_header"]>> \o RequiredLines(e)
        missing == missing_vars(e)
        summary == OptionalLines(e) \o RuntimeLines(options)
    IN  IF missing # <<>>
        THEN [lines |-> head \o <<[kind |-> "missing", vars |-> missing]>>
                        \o RemediationLines \o summary,
              ok |-> FALSE]
        ELSE [lines |-> head \o summary, ok |-> TRUE]

setup_environment(e, options) ==
    LET head == <<[kind |-> "config_header"]>> \o RequiredLines(e)
        missing == missing_vars(e)
    IN  IF missing # <<>>
        THEN [lines |-> head \o <<[kind |-> "missing", vars |-> missing]>>
                        \o RemediationLines,
              ok |-> FALSE]
        ELSE [lines |-> head \o OptionalLines(e) \o RuntimeLines(options),
              ok |-> TRUE]

---------------------------------------------------------------------------
(* The start-up banner of run_server *)

BannerLines(options) ==
    <<[kind |-> "start"], [kind |-> "mode", transport |-> options.transport]>>
    \o (IF options.transport # STDIO
        THEN <<[kind |-> "listen", host |-> options.host, port |-> options.port]>>
        ELSE <<>>)
    \o <<[kind |-> "ops"]>>

---------------------------------------------------------------------------
(* The inputs of a run: command lines and environments *)

MaxPasswordLen == 2

PasswordChars == {"a", "b"}

Passwords == UNION {[1..n -> PasswordChars] : n \in 0..MaxPasswordLen}

BOGUS == <<"w","s">>

HostCli == <<"c","l","i">>

Host1 == <<"h","1">>

Host2 == <<"h","2">>

Host3 == <<"h","3">>

TransportFull ==
    {[cli |-> c, env |-> ("MCP_TRANSPORT" :> t)] :
        c \in {None, Some(<<>>), Some(STDIO), Some(SSE), Some(STREAMABLE_HTTP),
               Some(BOGUS)},
        t \in {None, Some(<<>>), Some(STDIO), Some(SSE), Some(STREAMABLE_HTTP),
               Some(BOGUS)}}

TransportBase ==
    {[cli |-> None, env |-> ("MCP_TRANSPORT" :> t)] : t \in {None, Some(SSE)}}

HostFull ==
    {[cli |-> c,
      env |-> ("MCP_HTTP_HOST" :> a) @@ ("MCP_SERVER_HOST" :> b) @@ ("MCP_HOST" :> d)] :
        c \in {None, Some(<<>>), Some(HostCli)},
        a \in {None, Some(<<>>), Some(Host1)},
        b \in {None, Some(<<>>), Some(Host2)},
        d \in {None, Some(Host3)}}

HostBase ==
    {[cli |-> None,
      env |-> ("MCP_HTTP_HOST" :> None) @@ ("MCP_SERVER_HOST" :> None)
              @@ ("MCP_HOST" :> d)] : d \in {None, Some(Host3)}}

CliPorts ==
    {None, Some(<<"0">>), Some(<<"-","1">>), Some(<<"4","4","3">>),
     Some(<<"6","5","5","3","5">>), Some(<<"6","5","5","3","6">>),
     Some(<<"a","b","c">>), Some(<<>>)}

HttpPorts ==
    {None, Some(<<>>), Some(<<" ">>), Some(<<"8","0","8","0">>), Some(<<"0">>),
     Some(<<"6","5","5","3","6">>), Some(<<"8","0","a">>)}

ServerPorts ==
    {None, Some(<<>>), Some(<<"9","0","0","0">>), Some(<<"-","7">>)}

McpPorts ==
    {None, Some(<<"9","9","9","9">>), Some(<<" ","8","0"," ">>),
     Some(<<"6","5","_","5","3","5">>)}

PortFull ==
    {[cli |-> c,
      env |-> ("MCP_HTTP_PORT" :> a) @@ ("MCP_SERVER_PORT" :> b) @@ ("MCP_PORT" :> d)] :
        c \in CliPorts, a \in HttpPorts, b \in ServerPorts, d \in McpPorts}

PortBase ==
    {[cli |-> None,
      env |-> ("MCP_HTTP_PORT" :> None) @@ ("MCP_SERVER_PORT" :> None)
              @@ ("MCP_PORT" :> d)] : d \in {None, Some(<<"9","9","9","9">>)}}

BaseUrl == <<"h","t","t","p","s",":","/","/","o","t","r","s">>

RequiredFull ==
    {("OTRS_BASE_URL" :> u) @@ ("OTRS_USERNAME" :> n) @@ ("OTRS_PASSWORD" :> p) :
        u \in {None, Some(<<>>), Some(BaseUrl)},
        n \in {None, Some(<<>>), Some(<<"a","b">>)},
        p \in {None} \cup {Some(w) : w \in Passwords}}

RequiredBase ==
    {("OTRS_BASE_URL" :> Some(BaseUrl)) @@ ("OTRS_USERNAME" :> Some(<<"a","b">>))
     @@ ("OTRS_PASSWORD" :> p) : p \in {None, Some(<<"a","b">>)}}

OptionalFull ==
    {("OTRS_VERIFY_SSL" :> v) @@ ("OTRS_DEFAULT_QUEUE" :> q)
     @@ ("OTRS_DEFAULT_STATE" :> s) @@ ("OTRS_DEFAULT_PRIORITY" :> p) :
        v \in {None, Some(<<>>), Some(<<"f","a","l","s","e">>)},
        q \in {None, Some(<<"R","a","w">>)},
        s \in {None, Some(<<"n","e","w">>)},
        p \in {None, Some(<<"3">>)}}

OptionalBase ==
    {("OTRS_VERIFY_SSL" :> v) @@ ("OTRS_DEFAULT_QUEUE" :> None)
     @@ ("OTRS_DEFAULT_STATE" :> None) @@ ("OTRS_DEFAULT_PRIORITY" :> None) :
        v \in {None, Some(<<"f","a","l","s","e">>)}}

\* A run varies one group of inputs over its full set and the others over
\* their base sets: the groups are read by different statements of the code.
Groups == {"transport", "host", "port", "required", "optional"}

Pick(focus, group, full, base) == IF focus = group THEN full ELSE base

---------------------------------------------------------------------------
(* The state machine of run_server *)

Init ==
    /\ \E focus \in Groups :
         \E t \in Pick(focus, "transport", TransportFull, TransportBase),
            h \in Pick(focus, "host", HostFull, HostBase),
            p \in Pick(focus, "port", PortFull, PortBase),
            r \in Pick(focus, "required", RequiredFull, RequiredBase),
            o \in Pick(focus, "optional", OptionalFull, OptionalBase) :
              /\ argv = [transport |-> t.cli, host |-> h.cli, port |-> p.cli]
              /\ env = t.env @@ h.env @@ p.env @@ r @@ o
    /\ pc = "parse"
    /\ args = None
    /\ runtime_options = None
    /\ env_ok = None
    /\ stdout = <<>>
    /\ stderr = <<>>
    /\ mcp_settings = [host |-> None, port |-> None]
    /\ mcp_run_calls = <<>>
    /\ exit_code = None
    /\ events = <<>>

\* args = parse_cli_args(argv); argparse exits with status 2 on an error
ParseCliArgs ==
    /\ pc = "parse"
    /\ LET ns == parse_cli_args(argv)
       IN  IF ns = None
           THEN /\ stderr' = Append(stderr, [kind |-> "usage_error"])
                /\ exit_code' = Some(2)
                /\ pc' = "exited"
                /\ args' = args
           ELSE /\ args' = ns
                /\ pc' = "resolve"
                /\ UNCHANGED <<stderr, exit_code>>
    /\ events' = Append(events, "parse")
    /\ UNCHANGED <<argv, env, runtime_options, env_ok, stdout, mcp_settings,
                   mcp_run_calls>>

\* runtime_options = resolve_runtime_options(args)
ResolveRuntimeOptions ==
    /\ pc = "resolve"
    /\ LET r == resolve_runtime_options(args[1], env)
       IN  /\ runtime_options' = Some(r.options)
           /\ stderr' = stderr \o r.warn
    /\ pc' = "setup"
    /\ events' = Append(events, "resolve")
    /\ UNCHANGED <<argv, env, args, env_ok, stdout, mcp_settings, mcp_run_calls,
                   exit_code>>

\* setup_environment(runtime_options)
SetupEnvironment ==
    /\ pc = "setup"
    /\ LET r == setup_environment(env, runtime_options[1])
       IN  /\ stdout' = stdout \o r.lines
           /\ env_ok' = Some(r.ok)
    /\ pc' = "check"
    /\ events' = Append(events, "setup")
    /\ UNCHANGED <<argv, env, args, runtime_options, stderr, mcp_settings,
                   mcp_run_calls, exit_code>>

\* if not setup_environment(...): sys.exit(1)
SysExit ==
    /\ pc = "check"
    /\ env_ok = Some(FALSE)
    /\ exit_code' = Some(1)
    /\ pc' = "exited"
    /\ events' = Append(events, "exit")
    /\ UNCHANGED <<argv, env, args, runtime_options, env_ok, stdout, stderr,
                   mcp_settings, mcp_run_calls>>

\* variant: the result of setup_environment is not checked
ApplyRuntimeSettings_Unchecked ==
    /\ pc = "check"
    /\ mcp_settings' = apply_runtime_settings(runtime_options[1])
    /\ pc' = "banner"
    /\ events' = Append(events, "apply")
    /\ UNCHANGED <<argv, env, args, runtime_options, env_ok, stdout, stderr,
                   mcp_run_calls, exit_code>>

\* apply_runtime_settings(runtime_options)
ApplyRuntimeSettings ==
    /\ pc = "check"
    /\ env_ok = Some(TRUE)
    /\ mcp_settings' = apply_runtime_settings(runtime_options[1])
    /\ pc' = "banner"
    /\ events' = Append(events, "apply")
    /\ UNCHANGED <<argv, env, args, runtime_options, env_ok, stdout, stderr,
                   mcp_run_calls, exit_code>>

\* the banner, then mcp.run(transport=runtime_options.transport), which blocks
StartServer ==
    /\ pc = "banner"
    /\ stdout' = stdout \o BannerLines(runtime_options[1])
    /\ mcp_run_calls' = Append(mcp_run_calls,
                               [transport |-> runtime_options[1].transport,
                                host |-> mcp_settings.host,
                                port |-> mcp_settings.port])
    /\ pc' = "running"
    /\ events' = Append(events, "run")
    /\ UNCHANGED <<argv, env, args, runtime_options, env_ok, stderr, mcp_settings,
                   exit_code>>

\* mcp.run returns when the server shuts down; run_server ends, status 0
McpRunReturns ==
    /\ pc = "running"
    /\ exit_code' = Some(0)
    /\ pc' = "exited"
    /\ events' = Append(events, "return")
    /\ UNCHANGED <<argv, env, args, runtime_options, env_ok, stdout, stderr,
                   mcp_settings, mcp_run_calls>>

Next ==
    \/ ParseCliArgs
    \/ ResolveRuntimeOptions
    \/ SetupEnvironment
    \/ SysExit
    \/ ApplyRuntimeSettings
    \/ StartServer
    \/ McpRunReturns

Spec == Init /\ [][Next]_vars

---------------------------------------------------------------------------
(* Vocabulary of the properties, stated on the inputs and the observable   *)
(* outputs of the run.                                                     *)

UnsetOrEmpty(name) == env[name] = None \/ env[name] = Some(<<>>)

SomeRequiredMissing ==
    \E name \in {"OTRS_BASE_URL", "OTRS_USERNAME", "OTRS_PASSWORD"} : UnsetOrEmpty(name)

\* the value of the first variable of n1, n2, n3 that is set and not empty
FirstNonEmpty(n1, n2, n3) ==
    IF ~UnsetOrEmpty(n1) THEN env[n1]
    ELSE IF ~UnsetOrEmpty(n2) THEN env[n2]
    ELSE IF ~UnsetOrEmpty(n3) THEN env[n3]
    ELSE None

EnvPort == FirstNonEmpty("MCP_HTTP_PORT", "MCP_SERVER_PORT", "MCP_PORT")

EnvHost == FirstNonEmpty("MCP_HTTP_HOST", "MCP_SERVER_HOST", "MCP_HOST")

Resolved == runtime_options # None

\* the process went on to setup_environment
ReachedSetup ==
    \/ pc \in {"setup", "check", "banner", "running"}
    \/ pc = "exited" /\ env_ok # None

\* argparse refused the command line: status 2, nothing resolved
RejectedByParser ==
    pc = "exited" /\ exit_code = Some(2) /\ args = None /\ ~Resolved

Warned(k) == \E i \in 1..Len(stderr) : stderr[i].kind = k

PortWarned == Warned("invalid_port") \/ Warned("port_out_of_range")

ValidPort(n) == n \in 1..65535

SettingsUnwritten == mcp_settings = [host |-> None, port |-> None]

\* C1: when a required variable is unset or empty and the parser accepted the
\* command line, mcp.settings is never written, mcp.run is never called, the
\* run never gets past the check of setup_environment's result, and when the
\* process has exited its status is 1.
C1_MissingCredentialExits ==
    (SomeRequiredMissing /\ args # None) =>
        /\ SettingsUnwritten
        /\ mcp_run_calls = <<>>
        /\ pc \in {"resolve", "setup", "check", "exited"}
        /\ pc = "check" => (ENABLED SysExit /\ ~ENABLED ApplyRuntimeSettings)
        /\ pc = "exited" => exit_code = Some(1)

C1_Witness ==
    /\ pc = "exited"
    /\ exit_code = Some(1)
    /\ env["OTRS_PASSWORD"] = None
    /\ ~UnsetOrEmpty("OTRS_BASE_URL")
    /\ ~UnsetOrEmpty("OTRS_USERNAME")

\* C2: setup_environment returns False exactly when one of OTRS_BASE_URL,
\* OTRS_USERNAME, OTRS_PASSWORD is unset or empty, whatever the runtime
\* options, the optional OTRS_* variables and the MCP_* variables are.
C2_FalseIffRequiredMissing ==
    env_ok # None => (env_ok = Some(FALSE) <=> SomeRequiredMissing)

C2_Witness ==
    /\ env_ok = Some(FALSE)
    /\ env["OTRS_USERNAME"] = Some(<<>>)
    /\ ~UnsetOrEmpty("OTRS_BASE_URL")
    /\ ~UnsetOrEmpty("OTRS_PASSWORD")

\* the parts of C3 that hold as stated: a supported transport given by the
\* flag, or by MCP_TRANSPORT when there is no flag, is the resolved one
C3_SupportedKept ==
    Resolved =>
        /\ (argv.transport # None /\ argv.transport[1] \in VALID_TRANSPORTS)
              => runtime_options[1].transport = argv.transport[1]
        /\ (argv.transport = None /\ ~UnsetOrEmpty("MCP_TRANSPORT")
              /\ env["MCP_TRANSPORT"][1] \in VALID_TRANSPORTS)
              => runtime_options[1].transport = env["MCP_TRANSPORT"][1]

\* a non-empty unsupported MCP_TRANSPORT, no flag given: stdio and a warning
C3_EnvFallback ==
    (Resolved /\ argv.transport = None /\ ~UnsetOrEmpty("MCP_TRANSPORT")
       /\ env["MCP_TRANSPORT"][1] \notin VALID_TRANSPORTS)
    => /\ runtime_options[1].transport = STDIO
       /\ Warned("unsupported_transport")
       /\ ReachedSetup

\* C3 (original): as C3_SupportedKept, and every unsupported string given by
\* the --transport flag or by MCP_TRANSPORT resolves to stdio with a warning,
\* the start-up going on (read here for non-empty strings only).
C3_Original ==
    /\ C3_SupportedKept
    /\ C3_EnvFallback
    /\ (pc # "parse" /\ argv.transport # None /\ argv.transport[1] # <<>>
          /\ argv.transport[1] \notin VALID_TRANSPORTS)
       => /\ Resolved
          /\ runtime_options[1].transport = STDIO
          /\ Warned("unsupported_transport")
          /\ ReachedSetup

\* C3 (amended): a supported transport is kept, the flag winning; a non-empty
\* unsupported MCP_TRANSPORT without a flag resolves to stdio with a warning
\* and the start-up goes on; an unset or empty MCP_TRANSPORT without a flag
\* resolves to stdio without a warning; an unsupported --transport value is
\* refused by the parser, which exits with status 2 before anything is resolved.
C3_TransportResolution ==
    /\ C3_SupportedKept
    /\ C3_EnvFallback
    /\ (Resolved /\ argv.transport = None /\ UnsetOrEmpty("MCP_TRANSPORT"))
       => /\ runtime_options[1].transport = STDIO
          /\ ~Warned("unsupported_transport")
    /\ (pc # "parse" /\ argv.transport # None
          /\ argv.transport[1] \notin VALID_TRANSPORTS)
       => RejectedByParser

C3_Witness ==
    /\ pc = "running"
    /\ argv.transport = None
    /\ env["MCP_TRANSPORT"] = Some(BOGUS)
    /\ runtime_options[1].transport = STDIO
    /\ Warned("unsupported_transport")

\* an integer --port outside 1..65535, or a first non-empty MCP_*_PORT that is
\* no integer or outside 1..65535: port 8000, a warning, the start-up goes on
C4_Fallback ==
    Resolved =>
        /\ (argv.port # None /\ ParseInt(argv.port[1]) # None
              /\ ~ValidPort(ParseInt(argv.port[1])[1]))
           => /\ runtime_options[1].port = 8000
              /\ Warned("port_out_of_range")
              /\ ReachedSetup
        /\ (argv.port = None /\ EnvPort # None
              /\ (ParseInt(EnvPort[1]) = None \/ ~ValidPort(ParseInt(EnvPort[1])[1])))
           => /\ runtime_options[1].port = 8000
              /\ PortWarned
              /\ ReachedSetup

\* C4 (original): as C4_Fallback, and a non-numeric --port value too resolves
\* to 8000 with a warning, the start-up going on (read here for non-empty
\* values only).
C4_Original ==
    /\ C4_Fallback
    /\ (pc # "parse" /\ TransportChoiceOk(argv)
          /\ argv.port # None /\ argv.port[1] # <<>>
          /\ ParseInt(argv.port[1]) = None)
       => /\ Resolved
          /\ runtime_options[1].port = 8000
          /\ PortWarned
          /\ ReachedSetup

\* C4 (amended): as C4_Fallback; a --port value that is not an integer is
\* refused by the parser, which exits with status 2 before anything is resolved.
C4_PortFallback ==
    /\ C4_Fallback
    /\ (pc # "parse" /\ argv.port # None /\ ParseInt(argv.port[1]) = None)
       => RejectedByParser

C4_Witness ==
    /\ pc = "running"
    /\ argv.port = None
    /\ env["MCP_HTTP_PORT"] = Some(<<"8","0","a">>)
    /\ env["MCP_SERVER_PORT"] = Some(<<"9","0","0","0">>)
    /\ runtime_options[1].port = 8000
    /\ Warned("invalid_port")

\* C5: a --port p with p in 1..65535 is the resolved port whatever the MCP_*
\* port variables hold; without the flag the first non-empty of MCP_HTTP_PORT,
\* MCP_SERVER_PORT, MCP_PORT is, when it is such a p; without the flag and
\* with all three unset or empty the port is 8000.
C5_PortPrecedence ==
    Resolved =>
        /\ (argv.port # None /\ ParseInt(argv.port[1]) # None
              /\ ValidPort(ParseInt(argv.port[1])[1]))
           => runtime_options[1].port = ParseInt(argv.port[1])[1]
        /\ (argv.port = None /\ EnvPort # None /\ ParseInt(EnvPort[1]) # None
              /\ ValidPort(ParseInt(EnvPort[1])[1]))
           => runtime_options[1].port = ParseInt(EnvPort[1])[1]
        /\ (argv.port = None /\ EnvPort = None)
           => runtime_options[1].port = 8000

C5_Witness ==
    /\ Resolved
    /\ argv.port = None
    /\ env["MCP_HTTP_PORT"] = Some(<<>>)
    /\ env["MCP_SERVER_PORT"] = Some(<<"9","0","0","0">>)
    /\ env["MCP_PORT"] = Some(<<"9","9","9","9">>)
    /\ runtime_options[1].port = 9000

\* without a usable flag: the first non-empty of MCP_HTTP_HOST,
\* MCP_SERVER_HOST, MCP_HOST, else 127.0.0.1
C6_EnvThenDefault ==
    IF EnvHost # None
    THEN runtime_options[1].host = EnvHost[1]
    ELSE runtime_options[1].host = DEFAULT_HTTP_HOST

\* C6 (original): the resolved host is the --host value whenever the flag is
\* given; otherwise the first non-empty environment value; otherwise 127.0.0.1.
C6_Original ==
    Resolved =>
        /\ argv.host # None => runtime_options[1].host = argv.host[1]
        /\ argv.host = None => C6_EnvThenDefault

\* C6 (amended): the resolved host is the --host value whenever the flag is
\* given with a non-empty value; otherwise (no flag, or an empty value) the
\* first non-empty environment value; otherwise 127.0.0.1.
C6_HostPrecedence ==
    Resolved =>
        /\ (argv.host # None /\ argv.host[1] # <<>>)
           => runtime_options[1].host = argv.host[1]
        /\ (argv.host = None \/ argv.host = Some(<<>>)) => C6_EnvThenDefault

C6_Witness ==
    /\ Resolved
    /\ argv.host = Some(HostCli)
    /\ env["MCP_HTTP_HOST"] = Some(Host1)
    /\ env["MCP_HOST"] = Some(Host3)
    /\ runtime_options[1].host = HostCli

\* C7: the resolved transport is one of stdio, sse, streamable-http and the
\* resolved port an integer with 0 < port < 65536; so are the port written to
\* mcp.settings and the transport and port mcp.run is started with.
C7_OptionsInRange ==
    /\ Resolved =>
          /\ runtime_options[1].transport \in {STDIO, SSE, STREAMABLE_HTTP}
          /\ runtime_options[1].port \in 1..65535
    /\ mcp_settings.port # None => mcp_settings.port[1] \in 1..65535
    /\ \A i \in 1..Len(mcp_run_calls) :
          /\ mcp_run_calls[i].transport \in {STDIO, SSE, STREAMABLE_HTTP}
          /\ mcp_run_calls[i].port # None
          /\ mcp_run_calls[i].port[1] \in 1..65535

C7_Witness ==
    /\ pc = "running"
    /\ argv.port = Some(<<"6","5","5","3","6">>)
    /\ env["MCP_PORT"] = Some(<<"9","9","9","9">>)
    /\ mcp_run_calls[1].port = Some(8000)

PrintedOptional(name) ==
    \E i \in 1..Len(stdout) :
        /\ stdout[i].kind = "optional"
        /\ stdout[i].name = name
        /\ stdout[i].value = (IF env[name] = None THEN DEFAULT_DISPLAY ELSE env[name][1])

PrintedOptionalVars ==
    \A name \in {"OTRS_VERIFY_SSL", "OTRS_DEFAULT_QUEUE", "OTRS_DEFAULT_STATE",
                 "OTRS_DEFAULT_PRIORITY"} : PrintedOptional(name)

PrintedRuntimeSettings ==
    /\ \E i \in 1..Len(stdout) :
          stdout[i].kind = "MCP_TRANSPORT"
          /\ stdout[i].transport = runtime_options[1].transport
    /\ \E i \in 1..Len(stdout) :
          stdout[i].kind = "MCP_HOST" /\ stdout[i].host = runtime_options[1].host
    /\ \E i \in 1..Len(stdout) :
          stdout[i].kind = "MCP_PORT" /\ stdout[i].port = runtime_options[1].port

PrintedNoSummary ==
    \A i \in 1..Len(stdout) :
        stdout[i].kind \notin {"optional", "runtime_header", "MCP_TRANSPORT",
                               "MCP_HOST", "MCP_PORT", "stdio_note"}

\* C8 (original): setup_environment prints the optional variables and the
\* resolved runtime settings both when it returns True and when it returns False.
C8_Original ==
    env_ok # None => (PrintedOptionalVars /\ PrintedRuntimeSettings)

\* C8 (amended): setup_environment prints the optional variables ("default"
\* for an unset one) and the resolved runtime settings when it returns True;
\* when a required variable is missing it returns False before printing them,
\* and neither is printed.
C8_SummaryOnlyOnSuccess ==
    /\ env_ok = Some(TRUE) => (PrintedOptionalVars /\ PrintedRuntimeSettings)
    /\ env_ok = Some(FALSE) => PrintedNoSummary

C8_Witness ==
    /\ pc = "check"
    /\ env_ok = Some(TRUE)
    /\ env["OTRS_VERIFY_SSL"] = None
    /\ env["OTRS_DEFAULT_QUEUE"] = Some(<<"R","a","w">>)
    /\ PrintedOptional("OTRS_VERIFY_SSL")
    /\ PrintedRuntimeSettings

PasswordShown(i) == stdout[i].kind = "var" /\ stdout[i].name = "OTRS_PASSWORD"

\* C9: a non-empty OTRS_PASSWORD is displayed as mask characters only, as many
\* as the password has characters; and with any other password of the same
\* non-zero length in its place setup_environment prints and returns the same.
C9_PasswordMasked ==
    (pc = "check" /\ ~UnsetOrEmpty("OTRS_PASSWORD")) =>
        /\ \E i \in 1..Len(stdout) : PasswordShown(i)
        /\ \A i \in 1..Len(stdout) :
              PasswordShown(i) =>
                 /\ Len(stdout[i].value) = Len(env["OTRS_PASSWORD"][1])
                 /\ \A j \in 1..Len(stdout[i].value) : stdout[i].value[j] = "*"
        /\ \A w \in Passwords :
              (w # <<>> /\ Len(w) = Len(env["OTRS_PASSWORD"][1])) =>
                 LET other == [env EXCEPT !["OTRS_PASSWORD"] = Some(w)]
                     r == setup_environment(other, runtime_options[1])
                 IN  r.lines = stdout /\ Some(r.ok) = env_ok

C9_Witness ==
    /\ pc = "check"
    /\ env["OTRS_PASSWORD"] = Some(<<"b","a">>)
    /\ env["OTRS_USERNAME"] = Some(<<"a","b">>)
    /\ \E i \in 1..Len(stdout) : PasswordShown(i) /\ stdout[i].value = <<"*","*">>

RunOrder == <<"parse", "resolve", "setup", "apply", "run", "return">>

\* C10: on a run that passes validation the steps happen in the order parse,
\* resolve, validate, write mcp.settings, mcp.run; mcp.run is not called before
\* the settings are written and is called once, with the resolved transport,
\* and finds in mcp.settings the host and port resolve_runtime_options returned.
C10_StartOrder ==
    env_ok = Some(TRUE) =>
        /\ Len(events) <= Len(RunOrder)
        /\ events = SubSeq(RunOrder, 1, Len(events))
        /\ Len(events) < 5 => mcp_run_calls = <<>>
        /\ Len(events) >= 5 =>
              /\ Len(mcp_run_calls) = 1
              /\ mcp_run_calls[1] =
                    [transport |-> runtime_options[1].transport,
                     host |-> Some(runtime_options[1].host),
                     port |-> Some(runtime_options[1].port)]
              /\ mcp_settings = [host |-> Some(runtime_options[1].host),
                                 port |-> Some(runtime_options[1].port)]
              /\ runtime_options[1] = resolve_runtime_options(args[1], env).options

C10_Witness ==
    /\ pc = "running"
    /\ Len(mcp_run_calls) = 1
    /\ mcp_run_calls[1].transport = STREAMABLE_HTTP
    /\ mcp_run_calls[1].host = Some(Host3)
    /\ mcp_run_calls[1].port = Some(9999)

============================================================================
